---- MODULE Spec2Model ----
(***************************************************************************)
(* A model of MedicalDataParser (medical_data_parser.py).                  *)
(*                                                                         *)
(* A Python str is a sequence of one-character strings, so that strip,     *)
(* split, re.sub and the number and date parsers are computed character by *)
(* character, as the code and the library calls it makes compute them.     *)
(* A DataFrame is a record of its column labels and its rows; a cell is a  *)
(* tagged value: a str, a number, a Timestamp, or NA.                      *)
(***************************************************************************)
EXTENDS Integers, Sequences, FiniteSets, TLC

VARIABLES file, blocks, raised, lines, calls

vars == <<file, blocks, raised, lines, calls>>

(***************************************************************************)
(* Bounds of the model.                                                    *)
(***************************************************************************)
MaxBody == 3

MaxLines == 5

MaxReuseLines == 3

MaxCalls == 2

(***************************************************************************)
(* str primitives                                                          *)
(***************************************************************************)
None == <<"None">>

Truthy(x) == x # None /\ x # <<>>

Whitespace == {" ", "\t", "\n", "\r"}

Digits == <<"0", "1", "2", "3", "4", "5", "6", "7", "8", "9">>

IsDigit(c) == \E n \in 1..10 : Digits[n] = c

DigitVal(c) == (CHOOSE n \in 1..10 : Digits[n] = c) - 1

AllDigits(s) == \A i \in 1..Len(s) : IsDigit(s[i])

RECURSIVE ToInt(_)
ToInt(s) ==
  IF s = <<>> THEN 0
  ELSE ToInt(SubSeq(s, 1, Len(s) - 1)) * 10 + DigitVal(s[Len(s)])

\* the first position from i on of a character of s that is no whitespace
RECURSIVE SkipLeft(_, _)
SkipLeft(s, i) ==
  IF i > Len(s) \/ s[i] \notin Whitespace THEN i ELSE SkipLeft(s, i + 1)

\* the last position up to i of a character of s that is no whitespace
RECURSIVE SkipRight(_, _)
SkipRight(s, i) ==
  IF i < 1 \/ s[i] \notin Whitespace THEN i ELSE SkipRight(s, i - 1)

lstrip(s) == SubSeq(s, SkipLeft(s, 1), Len(s))

rstrip(s) == SubSeq(s, 1, SkipRight(s, Len(s)))

strip(s) == rstrip(lstrip(s))

\* t in s
Contains(s, t) ==
  \E i \in 1..(Len(s) - Len(t) + 1) :
    s[i] = t[1] /\ SubSeq(s, i, i + Len(t) - 1) = t

\* the first position from i on of a character of cs in s, or Len(s) + 1
RECURSIVE FirstFrom(_, _, _)
FirstFrom(s, cs, i) ==
  IF i > Len(s) \/ s[i] \in cs THEN i ELSE FirstFrom(s, cs, i + 1)

FirstOf(s, cs) == FirstFrom(s, cs, 1)

\* s.split(c)
RECURSIVE SplitFrom(_, _, _)
SplitFrom(s, c, i) ==
  LET n == FirstFrom(s, {c}, i)
  IN  IF n > Len(s) THEN <<SubSeq(s, i, Len(s))>>
      ELSE <<SubSeq(s, i, n - 1)>> \o SplitFrom(s, c, n + 1)

SplitOn(s, c) == SplitFrom(s, c, 1)

\* s.split()
RECURSIVE WordsFrom(_, _)
WordsFrom(s, i) ==
  IF i > Len(s) THEN <<>>
  ELSE IF s[i] \in Whitespace THEN WordsFrom(s, i + 1)
  ELSE LET n == FirstFrom(s, Whitespace, i)
       IN  <<SubSeq(s, i, n - 1)>> \o WordsFrom(s, n)

SplitWhitespace(s) == WordsFrom(s, 1)

\* re.sub(r'\([^)]*\)', '', s)
RECURSIVE UnparenthesizedFrom(_, _)
UnparenthesizedFrom(s, i) ==
  LET open  == FirstFrom(s, {"("}, i)
      close == FirstFrom(s, {")"}, open)
  IN  IF close > Len(s) THEN SubSeq(s, i, Len(s))
      ELSE SubSeq(s, i, open - 1) \o UnparenthesizedFrom(s, close + 1)

RemoveParenthesized(s) == UnparenthesizedFrom(s, 1)

(***************************************************************************)
(* Line classification and tokenizers                                      *)
(***************************************************************************)
FormatDate == <<"(", "d", "d", "/", "m", "m", "/", "y", "y", "y", "y">>

FormatMin == <<"(", "m", "i", "n", ")">>

TimeName == <<"T", "i", "m", "e">>

Hyphen == <<"-">>

is_header_line(line) == Contains(line, <<"*">>)

is_format_line(line) == Contains(line, FormatDate) \/ Contains(line, FormatMin)

extract_block_name(line) == strip(SelectSeq(line, LAMBDA c : c # "*"))

parse_columns(line) == SplitWhitespace(RemoveParenthesized(line))

NonEmptyStripped(parts) ==
  SelectSeq([i \in 1..Len(parts) |-> strip(parts[i])], LAMBDA v : v # <<>>)

parse_data_line(line) == NonEmptyStripped(SplitOn(line, "\t"))

(***************************************************************************)
(* Cells                                                                   *)
(***************************************************************************)
NA == [kind |-> "NA"]

Str(s) == [kind |-> "str", s |-> s]

RECURSIVE Normalize(_, _)
Normalize(mant, scale) ==
  IF scale > 0 /\ mant % 10 = 0 THEN Normalize(mant \div 10, scale - 1)
  ELSE [kind |-> "num", mant |-> mant, scale |-> scale]

\* the number a str denotes for pd.to_numeric: [sign] digits [. digits]
IsNumber(s) ==
  LET body  == IF s # <<>> /\ Head(s) \in {"+", "-"} THEN Tail(s) ELSE s
      parts == SplitOn(body, ".")
  IN  /\ Len(parts) <= 2
      /\ \A i \in 1..Len(parts) : AllDigits(parts[i])
      /\ \E i \in 1..Len(parts) : parts[i] # <<>>

Number(s) ==
  LET neg   == s # <<>> /\ Head(s) = "-"
      body  == IF s # <<>> /\ Head(s) \in {"+", "-"} THEN Tail(s) ELSE s
      parts == SplitOn(body, ".")
      frac  == IF Len(parts) = 2 THEN parts[2] ELSE <<>>
      mag   == ToInt(parts[1] \o frac)
  IN  Normalize(IF neg THEN 0 - mag ELSE mag, Len(frac))

DaysInMonth(y, m) ==
  IF m \in {4, 6, 9, 11} THEN 30
  ELSE IF m = 2
       THEN (IF (y % 4 = 0 /\ y % 100 # 0) \/ y % 400 = 0 THEN 29 ELSE 28)
       ELSE 31

\* the fields of a str under the format '%d/%m/%Y %H:%M'
TimeFields(s) ==
  LET d1 == SplitOn(s, "/")
      r  == IF Len(d1) = 3 THEN SplitWhitespace(d1[3]) ELSE <<>>
      hm == IF Len(r) = 2 THEN SplitOn(r[2], ":") ELSE <<>>
  IN  IF Len(d1) = 3 /\ Len(r) = 2 /\ Len(hm) = 2
         /\ d1[3] = lstrip(d1[3]) /\ d1[3] = rstrip(d1[3])
      THEN <<d1[1], d1[2], r[1], hm[1], hm[2]>>
      ELSE <<>>

MatchesTimeFormat(s) ==
  LET f == TimeFields(s)
  IN  /\ f # <<>>
      /\ \A i \in 1..5 : AllDigits(f[i])
      /\ \A i \in {1, 2, 4, 5} : Len(f[i]) \in {1, 2}
      /\ Len(f[3]) = 4
      /\ ToInt(f[2]) \in 1..12
      /\ ToInt(f[3]) \in 1678..2261
      /\ ToInt(f[1]) \in 1..DaysInMonth(ToInt(f[3]), ToInt(f[2]))
      /\ ToInt(f[4]) \in 0..23
      /\ ToInt(f[5]) \in 0..59

Timestamp(s) ==
  LET f == TimeFields(s)
  IN  [kind |-> "Timestamp", year |-> ToInt(f[3]), month |-> ToInt(f[2]),
       day |-> ToInt(f[1]), hour |-> ToInt(f[4]), minute |-> ToInt(f[5])]

(***************************************************************************)
(* DataFrames                                                              *)
(***************************************************************************)
EmptyDataFrame == [columns |-> <<>>, rows |-> <<>>]

Column(df, j) == [i \in 1..Len(df.rows) |-> df.rows[i][j]]

SetColumn(df, j, col) ==
  [df EXCEPT !.rows =
     [i \in 1..Len(df.rows) |-> [df.rows[i] EXCEPT ![j] = col[i]]]]

Labelled(df, name) == {j \in 1..Len(df.columns) : df.columns[j] = name}

\* pd.DataFrame(data, columns=columns): every cell is still a str
NewDataFrame(data, columns) ==
  [columns |-> columns,
   rows |-> [i \in 1..Len(data) |->
               [j \in 1..Len(data[i]) |-> Str(data[i][j])]]]


\* df[col].replace('-', pd.NA)
replace_hyphen(col) ==
  [i \in 1..Len(col) |-> IF col[i] = Str(Hyphen) THEN NA ELSE col[i]]

\* a conversion cell by cell, as errors='coerce' per cell would give
to_numeric_per_cell(col) ==
  [i \in 1..Len(col) |->
     IF col[i].kind = "NA" THEN NA
     ELSE IF IsNumber(col[i].s) THEN Number(col[i].s) ELSE col[i]]

\* pd.to_numeric(col, errors='ignore'): the whole column converts, or the
\* input comes back as it was given
to_numeric(col) ==
  IF \A i \in 1..Len(col) : col[i].kind = "NA" \/ IsNumber(col[i].s)
  THEN [i \in 1..Len(col) |->
          IF col[i].kind = "NA" THEN NA ELSE Number(col[i].s)]
  ELSE col

\* pd.to_datetime(col, format='%d/%m/%Y %H:%M') raises ValueError unless every
\* cell matches the format
to_datetime_ok(col) == \A i \in 1..Len(col) : MatchesTimeFormat(col[i].s)

to_datetime(col) == [i \in 1..Len(col) |-> Timestamp(col[i].s)]

\* lines 99-105. With the label 'Time' repeated, df['Time'] is a DataFrame and
\* pd.to_datetime raises ValueError (duplicate keys), which is caught as well.
ConvertTime(df) ==
  LET T == Labelled(df, TimeName)
  IN  IF T = {} THEN df
      ELSE IF Cardinality(T) > 1 THEN df
      ELSE LET j == CHOOSE j \in T : TRUE
           IN  IF to_datetime_ok(Column(df, j))
               THEN SetColumn(df, j, to_datetime(Column(df, j)))
               ELSE df

\* lines 107-110, from the j-th label on. With the label repeated, df[col] is
\* a DataFrame and pd.to_numeric raises TypeError, which nothing catches.
RECURSIVE ConvertNumeric(_, _)
ConvertNumeric(df, j) ==
  IF j > Len(df.columns) THEN [raised |-> FALSE, df |-> df]
  ELSE IF df.columns[j] = TimeName THEN ConvertNumeric(df, j + 1)
  ELSE IF Cardinality(Labelled(df, df.columns[j])) > 1
       THEN [raised |-> TRUE, df |-> EmptyDataFrame]
       ELSE ConvertNumeric(
              SetColumn(df, j, to_numeric(replace_hyphen(Column(df, j)))),
              j + 1)

\* columns is None: a value no list of column names equals
NoColumns == <<None>>

\* a row with too many tokens accepted
AcceptsRow_AtLeast(values, columns) ==
  values # <<>> /\ Len(values) >= Len(columns)

AcceptsRow(values, columns) == values # <<>> /\ Len(values) = Len(columns)

\* lines 77-91: the loop over the block's lines
RECURSIVE ScanBlock(_, _, _)
ScanBlock(block_lines, columns, data) ==
  IF block_lines = <<>> THEN [columns |-> columns, data |-> data]
  ELSE LET line == Head(block_lines)
           rest == Tail(block_lines)
       IN  IF is_format_line(line) THEN ScanBlock(rest, columns, data)
           ELSE IF columns = NoColumns
                THEN ScanBlock(rest, parse_columns(line), data)
                ELSE IF AcceptsRow(parse_data_line(line), columns)
                     THEN ScanBlock(rest, columns,
                                    Append(data, parse_data_line(line)))
                     ELSE ScanBlock(rest, columns, data)

create_dataframe(block_lines) ==
  LET s == ScanBlock(block_lines, NoColumns, <<>>)
  IN  IF s.columns = NoColumns \/ s.columns = <<>> \/ s.data = <<>>
      THEN [raised |-> FALSE, df |-> EmptyDataFrame]
      ELSE ConvertNumeric(ConvertTime(NewDataFrame(s.data, s.columns)), 1)

(***************************************************************************)
(* self.blocks: a dict, in insertion order                                 *)
(***************************************************************************)
Keys(d) == [i \in 1..Len(d) |-> d[i].name]

HasKey(d, k) == \E i \in 1..Len(d) : d[i].name = k

\* a list of pairs that is appended to, where the code assigns into a dict
SetItem_Append(d, k, v) == Append(d, [name |-> k, df |-> v])

\* d[k] = v
SetItem(d, k, v) ==
  IF HasKey(d, k)
  THEN [i \in 1..Len(d) |-> IF d[i].name = k THEN [d[i] EXCEPT !.df = v] ELSE d[i]]
  ELSE Append(d, [name |-> k, df |-> v])

\* d.get(k, pd.DataFrame())
Get(d, k) ==
  IF HasKey(d, k) THEN d[CHOOSE i \in 1..Len(d) : d[i].name = k].df
  ELSE EmptyDataFrame

get_block_names == Keys(blocks)

get_block(block_name) == Get(blocks, block_name)

(***************************************************************************)
(* process_blocks                                                          *)
(***************************************************************************)
\* lines 61-62 and 71-72: the pending block is put into the dict; an
\* exception of create_dataframe leaves the dict as it is and ends the call
Emit(b, name, block) ==
  LET r == create_dataframe(block)
  IN  IF r.raised THEN [raised |-> TRUE, blocks |-> b]
      ELSE [raised |-> FALSE, blocks |-> SetItem(b, name, r.df)]

Pending(name, block) == Truthy(name) /\ block # <<>>

\* lines 54-72
RECURSIVE Segment(_, _, _, _)
Segment(ls, current_block, current_block_name, b) ==
  IF ls = <<>>
  THEN IF Pending(current_block_name, current_block)
       THEN Emit(b, current_block_name, current_block)
       ELSE [raised |-> FALSE, blocks |-> b]
  ELSE LET line == strip(Head(ls))
       IN  IF line = <<>>
           THEN Segment(Tail(ls), current_block, current_block_name, b)
           ELSE IF is_header_line(line)
                THEN IF Pending(current_block_name, current_block)
                     THEN LET e == Emit(b, current_block_name, current_block)
                          IN  IF e.raised THEN e
                              ELSE Segment(Tail(ls), <<>>,
                                           extract_block_name(line), e.blocks)
                     ELSE Segment(Tail(ls), <<>>, extract_block_name(line), b)
                ELSE Segment(Tail(ls), Append(current_block, line),
                             current_block_name, b)

\* lines 11-21: a missing or unreadable file reads as no lines
read_file == IF file.readable THEN file.content ELSE <<>>

Run(ls, b) ==
  IF ls = <<>> THEN [raised |-> FALSE, blocks |-> b]
  ELSE Segment(ls, <<>>, None, b)

process_blocks ==
  /\ calls < MaxCalls
  /\ lines' = read_file
  /\ \E r \in {Run(read_file, blocks)} :
       /\ blocks' = r.blocks
       /\ raised' = r.raised
  /\ calls' = calls + 1
  /\ UNCHANGED file

\* MedicalDataParser(file_path)
Construct ==
  /\ calls > 0
  /\ blocks' = <<>>
  /\ raised' = FALSE
  /\ lines' = <<>>
  /\ calls' = 0
  /\ UNCHANGED file

(***************************************************************************)
(* The lines the input files are made of                                   *)
(***************************************************************************)
\* '**** Glucose_concentration ****'
HeaderGlucose ==
  <<"*", "*", "*", "*", " ", "G", "l", "u", "c", "o", "s", "e", "_", "c",
  "o", "n", "c", "e", "n", "t", "r", "a", "t", "i", "o", "n", " ", "*",
  "*", "*", "*">>

\* 'Time (dd/mm/yyyy hh:mm)<TAB>conc (mmol/L)'
SchemaGlucose ==
  <<"T", "i", "m", "e", " ", "(", "d", "d", "/", "m", "m", "/", "y", "y",
  "y", "y", " ", "h", "h", ":", "m", "m", ")", "\t", "c", "o", "n", "c",
  " ", "(", "m", "m", "o", "l", "/", "L", ")">>

\* '01/01/2024 08:00<TAB>5.5'
RowGlucose1 ==
  <<"0", "1", "/", "0", "1", "/", "2", "0", "2", "4", " ", "0", "8", ":",
  "0", "0", "\t", "5", ".", "5">>

\* '01/01/2024 08:05<TAB>-'
RowGlucose2 ==
  <<"0", "1", "/", "0", "1", "/", "2", "0", "2", "4", " ", "0", "8", ":",
  "0", "5", "\t", "-">>

\* '**** Meal ****'
HeaderMeal ==
  <<"*", "*", "*", "*", " ", "M", "e", "a", "l", " ", "*", "*", "*", "*">>

\* 'Time<TAB>CHO'
SchemaMeal ==
  <<"T", "i", "m", "e", "\t", "C", "H", "O">>

\* '01/01/2024 08:10<TAB>30'
RowMeal ==
  <<"0", "1", "/", "0", "1", "/", "2", "0", "2", "4", " ", "0", "8", ":",
  "1", "0", "\t", "3", "0">>

\* 'Time<TAB>x (u)': the columns Time and x
SchemaTimeX ==
  <<"T", "i", "m", "e", "\t", "x", " ", "(", "u", ")">>

\* 'Time<TAB>Time': the label Time twice
SchemaTimeTime ==
  <<"T", "i", "m", "e", "\t", "T", "i", "m", "e">>

\* 'x<TAB>x': the label x twice
SchemaXX ==
  <<"x", "\t", "x">>

\* 'Time x x': three columns, the label x twice
SchemaTimeXX ==
  <<"T", "i", "m", "e", " ", "x", " ", "x">>

\* 'Time x y': three columns
SchemaTimeXY ==
  <<"T", "i", "m", "e", " ", "x", " ", "y">>

\* '-<TAB>30': no time
RowNoTime ==
  <<"-", "\t", "3", "0">>

\* 'not-a-date<TAB>30'
RowBadTime ==
  <<"n", "o", "t", "-", "a", "-", "d", "a", "t", "e", "\t", "3", "0">>

\* '02/01/2024 09:30<TAB>x': a cell that is no number
RowText ==
  <<"0", "2", "/", "0", "1", "/", "2", "0", "2", "4", " ", "0", "9", ":",
  "3", "0", "\t", "x">>

\* '31/12/2023 14:05<TAB> <TAB>-1.50<TAB>-': three tokens, one empty field
RowThree ==
  <<"3", "1", "/", "1", "2", "/", "2", "0", "2", "3", " ", "1", "4", ":",
  "0", "5", "\t", " ", "\t", "-", "1", ".", "5", "0", "\t", "-">>

\* '7': one token
RowOne ==
  <<"7">>

\* '7<TAB>7': two tokens; as a schema line, the label 7 twice
RowTwo ==
  <<"7", "\t", "7">>

\* ' ': a line of whitespace
Blank ==
  <<" ">>

\* '*A*'
HeaderA ==
  <<"*", "A", "*">>

\* ' ** B **'
HeaderB ==
  <<" ", "*", "*", " ", "B", " ", "*", "*">>

\* '***': a header with no name
HeaderNoName ==
  <<"*", "*", "*">>

NameGlucose ==
  <<"G", "l", "u", "c", "o", "s", "e", "_", "c", "o", "n", "c", "e", "n",
  "t", "r", "a", "t", "i", "o", "n">>

NameMeal ==
  <<"M", "e", "a", "l">>

NameCHO ==
  <<"C", "H", "O">>

NameConc ==
  <<"c", "o", "n", "c">>


\* the lines of a block's body: schema lines, a format line, rows that are
\* well-formed, ragged, missing, unparsable
BodyVocab ==
  {SchemaGlucose, SchemaTimeX, SchemaTimeTime, SchemaXX, SchemaTimeXY,
   SchemaTimeXX, RowGlucose1, RowGlucose2, RowNoTime, RowBadTime, RowText, RowThree,
   RowOne, Blank}

\* the lines that decide the segmentation: headers, and one-token and
\* two-token lines that serve as schema line and as row
SegmentVocab == {HeaderA, HeaderB, HeaderNoName, RowOne, Hyphen, RowTwo}

ReuseVocab == {HeaderA, HeaderB, RowOne, Hyphen}

SeqsUpTo(S, n) == UNION {[1..k -> S] : k \in 0..n}

EndToEnd ==
  <<HeaderGlucose, SchemaGlucose, RowGlucose1, RowGlucose2,
    HeaderMeal, SchemaMeal, RowMeal>>

\* a name used twice, each time with rows
SameNameTwice ==
  <<HeaderA, RowOne, RowOne, HeaderA, RowOne, Hyphen>>

\* a name used twice, around a block whose schema line repeats a label
SameNameAroundRepeatedLabel ==
  <<HeaderA, RowOne, RowOne, HeaderB, RowTwo, RowTwo,
    HeaderA, RowOne, Hyphen>>

Scenarios == {EndToEnd, SameNameTwice, SameNameAroundRepeatedLabel}

\* one block with a body of any lines; any lines around any headers; the
\* longer scenarios
Files ==
  {<<HeaderA>> \o body : body \in SeqsUpTo(BodyVocab, MaxBody)}
    \cup SeqsUpTo(SegmentVocab, MaxLines)
    \cup Scenarios

ReuseFiles == SeqsUpTo(ReuseVocab, MaxReuseLines)

Readable(content) == [readable |-> TRUE, content |-> content]

Unreadable == [readable |-> FALSE, content |-> <<>>]

(***************************************************************************)
(* Specifications                                                          *)
(***************************************************************************)
Constructed ==
  /\ blocks = <<>>
  /\ raised = FALSE
  /\ lines = <<>>
  /\ calls = 0

\* the file at file_path is replaced between two calls
WriteFile ==
  /\ \E f \in {Readable(c) : c \in ReuseFiles} \cup {Unreadable} : file' = f
  /\ UNCHANGED <<blocks, raised, lines, calls>>

Init ==
  /\ file \in {Readable(c) : c \in Files} \cup {Unreadable}
  /\ Constructed

Next == process_blocks \/ Construct

\* one parser on one file
Spec == Init /\ [][Next]_vars

InitReuse ==
  /\ file \in {Readable(c) : c \in ReuseFiles} \cup {Unreadable}
  /\ Constructed

NextReuse == process_blocks \/ WriteFile \/ Construct

\* one parser on a file that changes between the calls
SpecReuse == InitReuse /\ [][NextReuse]_vars

(***************************************************************************)
(* Properties                                                              *)
(***************************************************************************)
Tables == {blocks[b].df : b \in 1..Len(blocks)}

Cells(df) == {df.rows[i][j] : i \in 1..Len(df.rows), j \in 1..Len(df.columns)}

ColumnCells(df, j) == {df.rows[i][j] : i \in 1..Len(df.rows)}

Called == calls >= 1

\* the non-empty trimmed lines of the input
Trimmed(ls) ==
  SelectSeq([i \in 1..Len(ls) |-> strip(ls[i])], LAMBDA l : l # <<>>)

\* the header lines that are followed by a line that is no header
HeadersWithData(s) ==
  {i \in 1..Len(s) :
     is_header_line(s[i]) /\ i < Len(s) /\ ~is_header_line(s[i + 1])}

NamesOfHeadersWithData(s) == {extract_block_name(s[i]) : i \in HeadersWithData(s)}

\* the lines after the header at i, up to the next header or the end
RECURSIVE BodyFrom(_, _)
BodyFrom(s, i) ==
  IF i > Len(s) \/ is_header_line(s[i]) THEN <<>>
  ELSE <<s[i]>> \o BodyFrom(s, i + 1)

HeadersNamed(s, n) ==
  {i \in 1..Len(s) : is_header_line(s[i]) /\ extract_block_name(s[i]) = n}

Last(S) == CHOOSE i \in S : \A k \in S : k <= i

First(S) == CHOOSE i \in S : \A k \in S : i <= k

FirstEmitted(s, n) == First(HeadersNamed(s, n) \cap HeadersWithData(s))

\* the place of n among the names, in the order in which each was first emitted
PlaceByFirstEmission(s, n) ==
  1 + Cardinality({m \in NamesOfHeadersWithData(s) :
                     FirstEmitted(s, m) < FirstEmitted(s, n)})

\* C1: for the end-to-end input of the specification the result holds exactly
\* the blocks Glucose_concentration (columns Time and conc, two rows, the
\* second conc missing) and Meal (columns Time and CHO, one row, CHO = 30).
C1_EndToEnd ==
  (Called /\ lines = EndToEnd) =>
    /\ Keys(blocks) = <<NameGlucose, NameMeal>>
    /\ Get(blocks, NameGlucose).columns = <<TimeName, NameConc>>
    /\ Len(Get(blocks, NameGlucose).rows) = 2
    /\ Get(blocks, NameGlucose).rows[2][2] = NA
    /\ Get(blocks, NameMeal).columns = <<TimeName, NameCHO>>
    /\ Len(Get(blocks, NameMeal).rows) = 1
    /\ Get(blocks, NameMeal).rows[1][2] = [kind |-> "num", mant |-> 30, scale |-> 0]

\* C2: no cell of any table of the result holds the text "-": every "-" has
\* become missing, in every column, the column named Time included.
C2_MissingValueLaw ==
  \A df \in Tables : \A c \in Cells(df) : c # Str(Hyphen)

\* C3: in every table of the result, each column named Time is converted as a
\* whole: timestamps throughout when every cell matches the format, the raw
\* text throughout when some cell does not.
C3_TimeAllOrNothing ==
  \A df \in Tables : \A j \in Labelled(df, TimeName) :
    \/ \A c \in ColumnCells(df, j) : c.kind = "Timestamp"
    \/ /\ \A c \in ColumnCells(df, j) : c.kind = "str"
       /\ \E c \in ColumnCells(df, j) : ~MatchesTimeFormat(c.s)

\* a cell that holds the token, as text, as a number, as a time or as missing
FromToken(c, tok) ==
  \/ c = Str(tok)
  \/ c = NA /\ tok = Hyphen
  \/ IsNumber(tok) /\ c = Number(tok)
  \/ MatchesTimeFormat(tok) /\ c = Timestamp(tok)

\* the lines of a body after its schema line, format lines left out
RowLines(body) ==
  LET plain == SelectSeq(body, LAMBDA l : ~is_format_line(l))
  IN  IF plain = <<>> THEN <<>> ELSE Tail(plain)

OneBlock(s) ==
  /\ Len(s) >= 1
  /\ \A i \in 1..Len(s) : is_header_line(s[i]) <=> i = 1

\* C4: every row of every table of the result is as wide as the table has
\* columns; and the rows of a table are, in input order, the row lines whose
\* token count equals the column count, so that a line with another count
\* gives no row.
C4_RowWidth ==
  /\ \A df \in Tables : \A i \in 1..Len(df.rows) :
       Len(df.rows[i]) = Len(df.columns)
  /\ (Called /\ ~raised /\ OneBlock(Trimmed(lines)) /\ Len(blocks) = 1) =>
       LET df   == blocks[1].df
           rows == SelectSeq(RowLines(Tail(Trimmed(lines))),
                     LAMBDA l : Len(parse_data_line(l)) = Len(df.columns))
       IN  /\ Len(df.rows) = Len(rows)
           /\ \A i \in 1..Len(df.rows) : \A j \in 1..Len(df.columns) :
                FromToken(df.rows[i][j], parse_data_line(rows[i])[j])

\* a table with rows was built from an input that also holds a row line of
\* another width, and one of the same width
C4_Witness ==
  /\ Called /\ ~raised /\ OneBlock(Trimmed(lines)) /\ Len(blocks) = 1
  /\ Len(blocks[1].df.rows) >= 1
  /\ \E l \in {RowLines(Tail(Trimmed(lines)))[k] :
                 k \in 1..Len(RowLines(Tail(Trimmed(lines))))} :
       Len(parse_data_line(l)) # Len(blocks[1].df.columns)

\* C5: after a call on a new parser the keys of the result are exactly the
\* names of the header lines that are followed by a non-empty line that is no
\* header.
C5_KeySet ==
  Called =>
    {blocks[b].name : b \in 1..Len(blocks)} = NamesOfHeadersWithData(Trimmed(lines))

\* C6: a call of process_blocks on the lines the call before it read leaves
\* the block mapping as that call left it: the same names in the same order,
\* each with the same columns and rows.
C6_Idempotent ==
  [][(Called /\ calls' = calls + 1 /\ lines' = lines)
       => (blocks' = blocks /\ raised' = raised)]_vars

\* a second call has run on a result of two blocks
C6_Witness == calls >= 2 /\ Len(blocks) >= 2

C8_NoException == ~raised

\* C9: after any calls the block mapping is the one a new parser builds from
\* the lines the most recent call read.
C9_FreshResult == Called => blocks = Run(lines, <<>>).blocks

\* C10: a name that several header lines of the input extract to is mapped to
\* the table of the lines after the last of them, and is listed once, at the
\* place of its first emission.
C10_LastWins ==
  Called =>
    LET s == Trimmed(lines)
    IN  \A n \in {extract_block_name(s[i]) :
                    i \in {k \in 1..Len(s) : is_header_line(s[k])}} :
          Cardinality(HeadersNamed(s, n)) >= 2 =>
            /\ Get(blocks, n) =
                 create_dataframe(BodyFrom(s, Last(HeadersNamed(s, n)) + 1)).df
            /\ n \in NamesOfHeadersWithData(s) =>
                 /\ PlaceByFirstEmission(s, n) <= Len(blocks)
                 /\ {k \in 1..Len(blocks) : blocks[k].name = n}
                      = {PlaceByFirstEmission(s, n)}

====
